---- MODULE Spec2Model ----
(***************************************************************************)
(* Student record store of 03-Studentmanger.py: the Student record, the    *)
(* text file studentMarks.txt (load_students / save_students) and the      *)
(* handlers of StudentManagerApp that query and mutate the collection.     *)
(*                                                                         *)
(* A Python str is modelled as a sequence of one-character strings, so     *)
(* that formatting, splitting, trimming and integer parsing are computed   *)
(* character by character as the code computes them.                       *)
(***************************************************************************)
EXTENDS Integers, Sequences, FiniteSets, TLC

(***************************************************************************)
(* Bounds of the model.                                                    *)
(***************************************************************************)
\* add_record.submit is not modelled once the collection holds this many records
MaxStudents == 2
\* number of apply_changes of a session that assign a field
MaxEdits == 1
\* number of changes the outside world makes to the candidate files
MaxEnvSteps == 1

(***************************************************************************)
(* Python str and int primitives.                                          *)
(***************************************************************************)
Digits == <<"0", "1", "2", "3", "4", "5", "6", "7", "8", "9">>

IsDigit(c) == \E i \in 1..10 : Digits[i] = c

DigitVal(c) == (CHOOSE i \in 1..10 : Digits[i] = c) - 1

\* str.isspace() of one character
IsSpace(c) == c \in {" ", "\n", "\t", "\r"}

SetMin(S) == CHOOSE x \in S : \A y \in S : x <= y

SetMax(S) == CHOOSE x \in S : \A y \in S : x >= y

\* str.strip()
Strip(s) ==
    LET keep == {i \in 1..Len(s) : ~IsSpace(s[i])}
    IN  IF keep = {} THEN <<>> ELSE SubSeq(s, SetMin(keep), SetMax(keep))

\* str.lower() of one character, over the letters the model uses
LowerChar(c) ==
    CASE c = "A" -> "a"
      [] c = "B" -> "b"
      [] c = "N" -> "n"
      [] OTHER   -> c

\* str.lower()
Lower(s) == [i \in 1..Len(s) |-> LowerChar(s[i])]

\* the Python test  sub in s
Contains(s, sub) ==
    \E i \in 1..(Len(s) - Len(sub) + 1) : SubSeq(s, i, i + Len(sub) - 1) = sub

RECURSIVE Split(_, _)
\* str.split(sep) for a one-character separator
Split(s, sep) ==
    LET at == {i \in 1..Len(s) : s[i] = sep}
    IN  IF at = {} THEN <<s>>
        ELSE LET i == SetMin(at)
             IN  <<SubSeq(s, 1, i - 1)>> \o Split(SubSeq(s, i + 1, Len(s)), sep)

RECURSIVE NatToStr(_)
NatToStr(n) ==
    IF n < 10 THEN <<Digits[n + 1]>>
    ELSE NatToStr(n \div 10) \o <<Digits[(n % 10) + 1]>>

\* str(n) of an int, as an f-string formats it
IntToStr(n) == IF n < 0 THEN <<"-">> \o NatToStr(0 - n) ELSE NatToStr(n)

RECURSIVE DigitsToNat(_)
DigitsToNat(s) ==
    IF s = <<>> THEN 0
    ELSE 10 * DigitsToNat(SubSeq(s, 1, Len(s) - 1)) + DigitVal(s[Len(s)])

\* the digits of an integer literal: decimal digits, single underscores allowed
\* between digits
IsIntBody(b) ==
    /\ b # <<>>
    /\ \A i \in 1..Len(b) : IsDigit(b[i]) \/ b[i] = "_"
    /\ IsDigit(b[1]) /\ IsDigit(b[Len(b)])
    /\ \A i \in 1..(Len(b) - 1) : ~(b[i] = "_" /\ b[i + 1] = "_")

\* int(s) of a str: [ok |-> TRUE, val |-> n], or ok = FALSE where Python raises
\* ValueError
PyInt(s) ==
    LET t    == Strip(s)
        sgn  == t # <<>> /\ t[1] \in {"+", "-"}
        body == IF sgn THEN Tail(t) ELSE t
        digs == SelectSeq(body, IsDigit)
    IN  IF IsIntBody(body)
        THEN [ok |-> TRUE,
              val |-> IF sgn /\ t[1] = "-" THEN 0 - DigitsToNat(digs)
                      ELSE DigitsToNat(digs)]
        ELSE [ok |-> FALSE, val |-> 0]

(***************************************************************************)
(* class Student.                                                          *)
(***************************************************************************)
\* Student.__init__ called with marks that are already int (add_record)
Student(sid, name, c1, c2, c3, exam) ==
    [sid |-> Strip(sid), name |-> Strip(name),
     coursework |-> <<c1, c2, c3>>, exam |-> exam]

\* Student.__init__ called with six str fields (load_students): int() of a
\* mark that is no integer literal raises ValueError
StudentOfParts(parts) ==
    LET c1   == PyInt(parts[3])
        c2   == PyInt(parts[4])
        c3   == PyInt(parts[5])
        exam == PyInt(parts[6])
    IN  IF c1.ok /\ c2.ok /\ c3.ok /\ exam.ok
        THEN [ok |-> TRUE,
              rec |-> Student(parts[1], parts[2], c1.val, c2.val, c3.val, exam.val)]
        ELSE [ok |-> FALSE, rec |-> Student(<<>>, <<>>, 0, 0, 0, 0)]

\* to_line writing the exam mark before the coursework marks
to_line_ExamFirst(s) ==
    s.sid \o <<",">> \o s.name \o <<",">> \o IntToStr(s.exam) \o <<",">>
        \o IntToStr(s.coursework[1]) \o <<",">> \o IntToStr(s.coursework[2])
        \o <<",">> \o IntToStr(s.coursework[3]) \o <<"\n">>

\* Student.to_line
to_line(s) ==
    s.sid \o <<",">> \o s.name \o <<",">> \o IntToStr(s.coursework[1]) \o <<",">>
        \o IntToStr(s.coursework[2]) \o <<",">> \o IntToStr(s.coursework[3])
        \o <<",">> \o IntToStr(s.exam) \o <<"\n">>

\* POTENTIAL_MAX = 160.0
POTENTIAL_MAX == 160

\* Student.coursework_total: sum(self.coursework)
coursework_total(s) == s.coursework[1] + s.coursework[2] + s.coursework[3]

\* Student.total: coursework_total + exam
total(s) == coursework_total(s) + s.exam

\* Student.percentage >= bound, for the whole-number bounds grade compares
\* with.  (total / 160.0) * 100 is a float; on every integer total the
\* float comparison with 70, 60, 50 and 40 agrees with the exact one
\* (112/160.0*100 is exactly 70.0, and so on), so it is taken exactly.
percentage_at_least(s, bound) == total(s) * 100 >= bound * POTENTIAL_MAX

\* Student.grade with the bands compared strictly
grade_Strict(s) ==
    IF total(s) * 100 > 70 * POTENTIAL_MAX THEN "A"
    ELSE IF total(s) * 100 > 60 * POTENTIAL_MAX THEN "B"
    ELSE IF total(s) * 100 > 50 * POTENTIAL_MAX THEN "C"
    ELSE IF total(s) * 100 > 40 * POTENTIAL_MAX THEN "D"
    ELSE "F"

\* Student.grade
grade(s) ==
    IF percentage_at_least(s, 70) THEN "A"
    ELSE IF percentage_at_least(s, 60) THEN "B"
    ELSE IF percentage_at_least(s, 50) THEN "C"
    ELSE IF percentage_at_least(s, 40) THEN "D"
    ELSE "F"

\* list.sort(key=lambda s: s.total, reverse=reverse) puts one more record
\* into an already sorted list: behind every record that does not have to
\* follow it, so records of equal total keep the order they came in.
SortInsert(sorted, x, reverse) ==
    LET Stays(y) == IF reverse THEN total(y) >= total(x)
                    ELSE total(y) <= total(x)
        k == Cardinality({i \in 1..Len(sorted) : Stays(sorted[i])})
    IN  SubSeq(sorted, 1, k) \o <<x>> \o SubSeq(sorted, k + 1, Len(sorted))

RECURSIVE sort_by_total_Reversing(_, _)
\* a descending sort taken as the ascending sort read backwards
sort_by_total_Reversing(studs, reverse) ==
    LET RECURSIVE Asc(_)
        Asc(s) == IF s = <<>> THEN <<>>
                  ELSE SortInsert(Asc(SubSeq(s, 1, Len(s) - 1)), s[Len(s)], FALSE)
        up == Asc(studs)
    IN  IF reverse THEN [i \in 1..Len(up) |-> up[Len(up) + 1 - i]] ELSE up

RECURSIVE sort_by_total(_, _)
\* self.students.sort(key=lambda s: s.total, reverse=reverse)
sort_by_total(studs, reverse) ==
    IF studs = <<>> THEN <<>>
    ELSE SortInsert(sort_by_total(SubSeq(studs, 1, Len(studs) - 1), reverse),
                    studs[Len(studs)], reverse)

\* max(self.students, key=lambda s: s.total) keeping the last of equal totals
index_of_max_Last(studs) ==
    LET top == SetMax({total(studs[i]) : i \in 1..Len(studs)})
    IN  SetMax({i \in 1..Len(studs) : total(studs[i]) = top})

\* max(self.students, key=lambda s: s.total): the index of the first record
\* no later record beats
index_of_max(studs) ==
    LET top == SetMax({total(studs[i]) : i \in 1..Len(studs)})
    IN  SetMin({i \in 1..Len(studs) : total(studs[i]) = top})

\* min(self.students, key=lambda s: s.total): the first record of least total
index_of_min(studs) ==
    LET low == SetMin({total(studs[i]) : i \in 1..Len(studs)})
    IN  SetMin({i \in 1..Len(studs) : total(studs[i]) = low})

(***************************************************************************)
(* The candidate files and load_students / save_students.                 *)
(* A file is [exists, text]; fs maps each index of DATA_PATHS to a file.   *)
(***************************************************************************)
\* len(DATA_PATHS)
NumPaths == 2

NoFile == [exists |-> FALSE, text |-> <<>>]

File(text) == [exists |-> TRUE, text |-> text]

\* _get_data_path falling back to the first candidate when none exists
get_data_path_Default(files) ==
    LET there == {p \in 1..NumPaths : files[p].exists}
    IN  IF there = {} THEN 1 ELSE SetMin(there)

\* _get_data_path: the first candidate that exists, 0 for None
get_data_path(files) ==
    LET there == {p \in 1..NumPaths : files[p].exists}
    IN  IF there = {} THEN 0 ELSE SetMin(there)

\* lines = [line.strip() for line in f if line.strip()]
FileLines(text) ==
    LET raw == Split(text, "\n")
        NonBlank(l) == Strip(l) # <<>>
        kept == SelectSeq(raw, NonBlank)
    IN  [i \in 1..Len(kept) |-> Strip(kept[i])]

\* parts = [p.strip() for p in line.split(",")]
LineParts(line) ==
    LET raw == Split(line, ",")
    IN  [i \in 1..Len(raw) |-> Strip(raw[i])]

Loaded(students) == [status |-> "ok", students |-> students]

Raised(exc) == [status |-> exc, students |-> <<>>]

RECURSIVE LoadLines(_)
\* the for loop of load_students: the first six-field line whose marks do not
\* parse raises out of the loop
LoadLines(lines) ==
    IF lines = <<>> THEN Loaded(<<>>)
    ELSE LET parts == LineParts(Head(lines))
         IN  IF Len(parts) = 6
             THEN LET s == StudentOfParts(parts)
                  IN  IF ~s.ok THEN Raised("ValueError")
                      ELSE LET rest == LoadLines(Tail(lines))
                           IN  IF rest.status = "ok"
                               THEN Loaded(<<s.rec>> \o rest.students)
                               ELSE rest
             ELSE LoadLines(Tail(lines))

\* load_students from the text of the resolved file: lines[0] of an empty list
\* raises IndexError, which except ValueError does not catch
LoadText(text) ==
    LET lines == FileLines(text)
    IN  IF lines = <<>> THEN Raised("IndexError")
        ELSE IF PyInt(lines[1]).ok THEN LoadLines(Tail(lines))
        ELSE LoadLines(lines)

\* load_students
load_students(files) ==
    LET path == get_data_path(files)
    IN  IF path = 0 THEN [status |-> "nofile", students |-> <<>>]
        ELSE LoadText(files[path].text)

RECURSIVE RecordLines(_)
\* for s in students: f.write(s.to_line())
RecordLines(students) ==
    IF students = <<>> THEN <<>>
    ELSE to_line(Head(students)) \o RecordLines(Tail(students))

\* save_students writing the records without the count line
SaveText_NoCount(students) == RecordLines(students)

\* what save_students writes into the file opened with mode "w"
SaveText(students) ==
    IntToStr(Len(students)) \o <<"\n">> \o RecordLines(students)

\* save_students opening the file with mode "a": the old text stays
save_students_Append(files, students) ==
    LET path == get_data_path(files)
    IN  IF path = 0 THEN [ok |-> FALSE, path |-> 0, files |-> files]
        ELSE [ok |-> TRUE, path |-> path,
              files |-> [files EXCEPT
                            ![path] = File(files[path].text \o SaveText(students))]]

\* save_students: [ok, path, files], the path resolved when the save runs
save_students(files, students) ==
    LET path == get_data_path(files)
    IN  IF path = 0 THEN [ok |-> FALSE, path |-> 0, files |-> files]
        ELSE [ok |-> TRUE, path |-> path,
              files |-> [files EXCEPT ![path] = File(SaveText(students))]]

(***************************************************************************)
(* The inputs the model draws from: texts of studentMarks.txt at start-up, *)
(* contents of the Add form, answers to the dialogs.                       *)
(***************************************************************************)
sA1 == <<"A", "1">>

sB2 == <<"B", "2">>

nAnn == <<"A", "n", "n">>

nBan == <<"B", "a", "n">>

RECURSIVE JoinComma(_)
JoinComma(fields) ==
    IF Len(fields) = 1 THEN fields[1]
    ELSE fields[1] \o <<",">> \o JoinComma(Tail(fields))

RECURSIVE TextOf(_)
\* the text of a file made of the given lines, each ended by a newline
TextOf(lines) ==
    IF lines = <<>> THEN <<>>
    ELSE Head(lines) \o <<"\n">> \o TextOf(Tail(lines))

LineAnn == JoinComma(<<sA1, nAnn, <<"1", "0">>, <<"2">>, <<"3">>, <<"4", "0">>>>)

\* blanks around the fields, a negative mark and a mark with a sign
LineBan == JoinComma(<<sB2, <<" ">> \o nBan \o <<" ">>, <<"-", "5">>, <<"+", "7">>,
                       <<"0", "8">>, <<" ", "9">>>>)

\* a second record with the id of LineAnn
LineDup == JoinComma(<<sA1, nBan, <<"0">>, <<"0">>, <<"0">>, <<"1">>>>)

LineFive == JoinComma(<<sB2, nBan, <<"1">>, <<"2">>, <<"3">>>>)

LineSeven == JoinComma(<<sB2, nBan, <<"1">>, <<"2">>, <<"3">>, <<"4">>, <<"5">>>>)

\* six fields, the second coursework mark is no integer
LineBadMark == JoinComma(<<sB2, nBan, <<"1">>, <<"x">>, <<"3">>, <<"4">>>>)

\* texts of studentMarks.txt when the session starts
InitTexts ==
    { <<>>,
      <<" ", "\n", "\n">>,
      TextOf(<< <<"0">> >>),
      TextOf(<< <<"7">>, LineAnn, LineBan >>),
      TextOf(<< LineAnn, <<>>, LineBan >>),
      TextOf(<< <<"3">>, LineAnn, LineBan, LineDup >>),
      TextOf(<< <<"2">>, LineFive, LineAnn, LineSeven >>),
      TextOf(<< <<"3">>, LineAnn, LineFive, LineBadMark >>) }

\* the text of the second candidate file, and of a candidate file that the
\* outside world creates during the session
EnvTexts == { TextOf(<< <<"1">>, LineDup >>) }

\* the candidate files when the session starts: the first candidate alone with
\* each text, both candidates, the second alone, none
InitFiles ==
    {<<File(t), NoFile>> : t \in InitTexts}
        \cup {<<File(TextOf(<< <<"0">> >>)), File(t)>> : t \in EnvTexts}
        \cup {<<NoFile, File(t)>> : t \in EnvTexts}
        \cup {<<NoFile, NoFile>>}

\* the six entries of the Add form, as typed
Form(sid, name, c1, c2, c3, exam) ==
    [sid |-> sid, name |-> name, c1 |-> c1, c2 |-> c2, c3 |-> c3, exam |-> exam]

AddForms ==
    { Form(<<"b", "2">>, <<" ">> \o nAnn, <<"5", "0">>, <<"0">>, <<"7">>,
           <<"1", "0", "0">>),
      Form(<<" ">>, nAnn, <<"1">>, <<"2">>, <<"3">>, <<"4">>),
      Form(sA1, <<>>, <<"1">>, <<"2">>, <<"3">>, <<"4">>),
      Form(sA1, nAnn, <<"5", "1">>, <<"2">>, <<"3">>, <<"4">>),
      Form(sA1, nAnn, <<"1">>, <<"2">>, <<"-", "1">>, <<"4">>),
      Form(sA1, nAnn, <<"1">>, <<"2">>, <<"3">>, <<"1", "0", "1">>),
      Form(sA1, nAnn, <<"1">>, <<"x">>, <<"3">>, <<"4">>),
      Form(sA1, nAnn, <<"1">>, <<"2">>, <<"3">>, <<>>) }

\* answers to "Enter Student ID or Name:"; <<>> stands for Cancel or an empty entry
Queries == { <<>>, <<" ", "a", "1">>, <<"A", "N">>, <<" ">>, <<"x">> }

\* an answer of apply_changes per field: <<>> when the field is not ticked or its
\* dialog is cancelled, <<v>> when the dialog returns v
Changes(sid, name, cw1, cw2, cw3, exam) ==
    [sid |-> sid, name |-> name, cw1 |-> cw1, cw2 |-> cw2, cw3 |-> cw3, exam |-> exam]

UpdateForms ==
    { Changes(<< <<" ">> >>, <<>>, <<>>, <<>>, <<>>, <<>>),
      Changes(<< <<" ", "B", "2">> >>, << <<"B", ",">> >>, <<>>, <<>>, <<>>, <<>>),
      Changes(<<>>, << <<" ">> >>, <<50>>, <<>>, <<0>>, <<100>>) }

(***************************************************************************)
(* State of a session of StudentManagerApp.                                *)
(***************************************************************************)
VARIABLES
    fs,          \* the candidate files of DATA_PATHS, by index
    students,    \* self.students
    phase,       \* "boot" before __init__ ran, then "run", or "crashed" when
                 \* load_students raised out of __init__
    upd,         \* index in students of the record the open Update dialog
                 \* captured, 0 when no Update dialog is open
    env,         \* number of changes the outside world made to the files
    edits,       \* number of apply_changes that assigned a field
    loadedFrom,  \* history: the path load_students resolved, 0 for None
    last,        \* history: the step just taken, its outcome and what it saw
    joke,        \* the fields of JokeApp (02-Alexajoke.py) and its pending
                 \* root.after callbacks
    quiz         \* the fields of MathQuizApp (01-Mathquiz.py) and its pending
                 \* root.after callbacks

vars == <<fs, students, phase, upd, env, edits, loadedFrom, last, joke, quiz>>

\* op and outcome name the handler and how it ended, path is the file it read or
\* wrote (0 for none), found the index _find_student returned (0 for None), n the
\* length of the collection before the step
Step(op, outcome, path, found, n) ==
    [op |-> op, outcome |-> outcome, path |-> path, found |-> found, n |-> n]

\* an application that was not started
NotStarted == [screen |-> "off"]

Init ==
    /\ fs \in InitFiles
    /\ students = <<>>
    /\ phase = "boot"
    /\ upd = 0
    /\ env = 0
    /\ edits = 0
    /\ loadedFrom = 0
    /\ last = Step("none", "none", 0, 0, 0)
    /\ joke = NotStarted
    /\ quiz = NotStarted

\* StudentManagerApp.__init__: self.students = load_students()
Start ==
    /\ phase = "boot"
    /\ LET r == load_students(fs)
       IN  /\ students' = r.students
           /\ phase' = IF r.status \in {"ok", "nofile"} THEN "run" ELSE "crashed"
           /\ loadedFrom' = get_data_path(fs)
           /\ last' = Step("load", r.status, get_data_path(fs), 0, 0)
    /\ UNCHANGED <<fs, upd, env, edits, joke, quiz>>

\* _find_student comparing the id without lower()
find_student_CaseSensitive(studs, query) ==
    LET q == Lower(Strip(query))
        hits == {i \in 1..Len(studs) :
                    studs[i].sid = q \/ Contains(Lower(studs[i].name), q)}
    IN  IF hits = {} THEN 0 ELSE SetMin(hits)

\* StudentManagerApp._find_student: the index of the record found, 0 for None
find_student(studs, query) ==
    LET q == Lower(Strip(query))
        hits == {i \in 1..Len(studs) :
                    Lower(studs[i].sid) = q \/ Contains(Lower(studs[i].name), q)}
    IN  IF hits = {} THEN 0 ELSE SetMin(hits)

\* view_individual, with the answer of the search dialog
view_individual(query) ==
    /\ phase = "run" /\ upd = 0
    /\ students # <<>>
    /\ IF query = <<>>
       THEN last' = Step("view", "cancelled", 0, 0, Len(students))
       ELSE LET found == find_student(students, query)
            IN  last' = Step("view", IF found = 0 THEN "not_found" ELSE "shown",
                             0, found, Len(students))
    /\ UNCHANGED <<fs, students, phase, upd, env, edits, loadedFrom, joke, quiz>>

\* show_highest: "No data available." on an empty collection, else the record
\* max() picks
show_highest ==
    /\ phase = "run" /\ upd = 0
    /\ last' = IF students = <<>> THEN Step("highest", "no_data", 0, 0, 0)
               ELSE Step("highest", "shown", 0, index_of_max(students),
                         Len(students))
    /\ UNCHANGED <<fs, students, phase, upd, env, edits, loadedFrom, joke, quiz>>

\* show_lowest: "No data available." on an empty collection, else the record
\* min() picks
show_lowest ==
    /\ phase = "run" /\ upd = 0
    /\ last' = IF students = <<>> THEN Step("lowest", "no_data", 0, 0, 0)
               ELSE Step("lowest", "shown", 0, index_of_min(students),
                         Len(students))
    /\ UNCHANGED <<fs, students, phase, upd, env, edits, loadedFrom, joke, quiz>>

\* view_all: "No student records found." on an empty collection, else the
\* table of the records and the class average; nothing is assigned
view_all ==
    /\ phase = "run" /\ upd = 0
    /\ last' = Step("view_all", IF students = <<>> THEN "no_records" ELSE "shown",
                    0, 0, Len(students))
    /\ UNCHANGED <<fs, students, phase, upd, env, edits, loadedFrom, joke, quiz>>

\* do_sort saving the sorted collection
do_sort_Saving(reverse) ==
    /\ phase = "run" /\ upd = 0
    /\ students # <<>>
    /\ students' = sort_by_total(students, reverse)
    /\ fs' = save_students(fs, sort_by_total(students, reverse)).files
    /\ last' = Step("sort", IF reverse THEN "desc" ELSE "asc", 0, 0, Len(students))
    /\ UNCHANGED <<phase, upd, env, edits, loadedFrom, joke, quiz>>

\* sort_records.do_sort, with the order chosen in the dialog: the collection
\* is sorted in place and shown by view_all; nothing is saved
do_sort(reverse) ==
    /\ phase = "run" /\ upd = 0
    /\ students # <<>>
    /\ students' = sort_by_total(students, reverse)
    /\ last' = Step("sort", IF reverse THEN "desc" ELSE "asc", 0, 0, Len(students))
    /\ UNCHANGED <<fs, phase, upd, env, edits, loadedFrom, joke, quiz>>

\* the checks of add_record.submit without the checks of the ranges
FormValid_NoRange(form) ==
    /\ PyInt(form.c1).ok /\ PyInt(form.c2).ok /\ PyInt(form.c3).ok
    /\ PyInt(form.exam).ok
    /\ Strip(form.sid) # <<>> /\ Strip(form.name) # <<>>

\* the checks of add_record.submit: every int() succeeds, id and name are not
\* empty, the marks are in range
FormValid(form) ==
    LET c1   == PyInt(form.c1)
        c2   == PyInt(form.c2)
        c3   == PyInt(form.c3)
        exam == PyInt(form.exam)
    IN  /\ c1.ok /\ c2.ok /\ c3.ok /\ exam.ok
        /\ Strip(form.sid) # <<>> /\ Strip(form.name) # <<>>
        /\ \A m \in {c1.val, c2.val, c3.val} : ~(m < 0 \/ m > 50)
        /\ ~(exam.val < 0 \/ exam.val > 100)

\* the new record put in front of the collection
list_append_Front(studs, new_student) == <<new_student>> \o studs

\* self.students.append(new_student)
list_append(studs, new_student) == Append(studs, new_student)

\* add_record.submit taking the new record back when the save fails
submit_RollBack(form) ==
    /\ phase = "run" /\ upd = 0
    /\ Len(students) < MaxStudents
    /\ IF ~FormValid(form)
       THEN /\ last' = Step("add", "invalid", 0, 0, Len(students))
            /\ UNCHANGED <<fs, students>>
       ELSE LET new_student == Student(Strip(form.sid), Strip(form.name),
                                       PyInt(form.c1).val, PyInt(form.c2).val,
                                       PyInt(form.c3).val, PyInt(form.exam).val)
                appended == list_append(students, new_student)
                sv == save_students(fs, appended)
            IN  /\ students' = IF sv.ok THEN appended ELSE students
                /\ fs' = sv.files
                /\ last' = Step("add", IF sv.ok THEN "saved" ELSE "save_failed",
                                sv.path, 0, Len(students))
    /\ UNCHANGED <<phase, upd, env, edits, loadedFrom, joke, quiz>>

\* add_record.submit, with the content of the six entries
submit(form) ==
    /\ phase = "run" /\ upd = 0
    /\ Len(students) < MaxStudents
    /\ IF ~FormValid(form)
       THEN /\ last' = Step("add", "invalid", 0, 0, Len(students))
            /\ UNCHANGED <<fs, students>>
       ELSE LET new_student == Student(Strip(form.sid), Strip(form.name),
                                       PyInt(form.c1).val, PyInt(form.c2).val,
                                       PyInt(form.c3).val, PyInt(form.exam).val)
                appended == list_append(students, new_student)
                sv == save_students(fs, appended)
            IN  /\ students' = appended
                /\ fs' = sv.files
                /\ last' = Step("add", IF sv.ok THEN "saved" ELSE "save_failed",
                                sv.path, 0, Len(students))
    /\ UNCHANGED <<phase, upd, env, edits, loadedFrom, joke, quiz>>

\* delete_record removing only the first record with the id
WithoutSid_FirstOnly(studs, sid) ==
    LET at == {i \in 1..Len(studs) : studs[i].sid = sid}
    IN  IF at = {} THEN studs
        ELSE SubSeq(studs, 1, SetMin(at) - 1)
                 \o SubSeq(studs, SetMin(at) + 1, Len(studs))

\* self.students = [s for s in self.students if s.sid != student.sid]
WithoutSid(studs, sid) ==
    LET Other(s) == s.sid # sid
    IN  SelectSeq(studs, Other)

\* delete_record, with the answers of the search dialog and of the confirmation
delete_record(query, confirm) ==
    /\ phase = "run" /\ upd = 0
    /\ students # <<>>
    /\ LET found == IF query = <<>> THEN 0 ELSE find_student(students, query)
       IN  IF query = <<>> \/ found = 0 \/ ~confirm
           THEN /\ last' = Step("delete",
                                IF query = <<>> THEN "cancelled"
                                ELSE IF found = 0 THEN "not_found" ELSE "declined",
                                0, found, Len(students))
                /\ UNCHANGED <<fs, students>>
           ELSE LET kept == WithoutSid(students, students[found].sid)
                    sv == save_students(fs, kept)
                IN  /\ students' = kept
                    /\ fs' = sv.files
                    /\ last' = Step("delete", IF sv.ok THEN "saved" ELSE "save_failed",
                                    sv.path, found, Len(students))
    /\ UNCHANGED <<phase, upd, env, edits, loadedFrom, joke, quiz>>

\* update_record up to the opening of the dialog, with the answer of the search
\* dialog: the dialog keeps the record found
update_record(query) ==
    /\ phase = "run" /\ upd = 0
    /\ students # <<>>
    /\ LET found == IF query = <<>> THEN 0 ELSE find_student(students, query)
       IN  /\ upd' = found
           /\ last' = Step("update_open",
                           IF query = <<>> THEN "cancelled"
                           ELSE IF found = 0 THEN "not_found" ELSE "opened",
                           0, found, Len(students))
    /\ UNCHANGED <<fs, students, phase, env, edits, loadedFrom, joke, quiz>>

\* new.strip() of an answer that is not None and not blank, else the old value
NewText(answer, old) ==
    IF answer # <<>> /\ Strip(answer[1]) # <<>> THEN Strip(answer[1]) ELSE old

NewMark(answer, old) == IF answer # <<>> THEN answer[1] ELSE old

\* the assignments of apply_changes, a mark without an answer set to 0
Changed_ResetMarks(s, ch) ==
    [sid |-> NewText(ch.sid, s.sid), name |-> NewText(ch.name, s.name),
     coursework |-> <<NewMark(ch.cw1, 0), NewMark(ch.cw2, 0), NewMark(ch.cw3, 0)>>,
     exam |-> NewMark(ch.exam, 0)]

\* the record after the assignments of apply_changes
Changed(s, ch) ==
    [sid |-> NewText(ch.sid, s.sid), name |-> NewText(ch.name, s.name),
     coursework |-> <<NewMark(ch.cw1, s.coursework[1]),
                      NewMark(ch.cw2, s.coursework[2]),
                      NewMark(ch.cw3, s.coursework[3])>>,
     exam |-> NewMark(ch.exam, s.exam)]

\* the flag changed of apply_changes: some field was assigned
AnyChange(ch) ==
    \/ ch.sid # <<>> /\ Strip(ch.sid[1]) # <<>>
    \/ ch.name # <<>> /\ Strip(ch.name[1]) # <<>>
    \/ ch.cw1 # <<>> \/ ch.cw2 # <<>> \/ ch.cw3 # <<>> \/ ch.exam # <<>>

\* update_record.apply_changes, with the answers of its dialogs
apply_changes(ch) ==
    /\ phase = "run" /\ upd # 0
    /\ AnyChange(ch) => edits < MaxEdits
    /\ LET updated == [students EXCEPT ![upd] = Changed(students[upd], ch)]
           sv == save_students(fs, updated)
       IN  IF AnyChange(ch)
           THEN /\ students' = updated
                /\ fs' = sv.files
                /\ upd' = IF sv.ok THEN 0 ELSE upd
                /\ edits' = edits + 1
                /\ last' = Step("update", IF sv.ok THEN "saved" ELSE "save_failed",
                                sv.path, upd, Len(students))
           ELSE /\ upd' = 0
                /\ last' = Step("update", "unchanged", 0, upd, Len(students))
                /\ UNCHANGED <<fs, students, edits>>
    /\ UNCHANGED <<phase, env, loadedFrom, joke, quiz>>

\* the user closes the Update dialog
CloseUpdate ==
    /\ phase = "run" /\ upd # 0
    /\ upd' = 0
    /\ last' = Step("update_close", "closed", 0, upd, Len(students))
    /\ UNCHANGED <<fs, students, phase, env, edits, loadedFrom, joke, quiz>>

\* the outside world creates a candidate file
EnvCreate(p, text) ==
    /\ phase = "run" /\ env < MaxEnvSteps
    /\ ~fs[p].exists
    /\ fs' = [fs EXCEPT ![p] = File(text)]
    /\ env' = env + 1
    /\ last' = Step("env", "created", p, 0, Len(students))
    /\ UNCHANGED <<students, phase, upd, edits, loadedFrom, joke, quiz>>

\* the outside world removes a candidate file
EnvRemove(p) ==
    /\ phase = "run" /\ env < MaxEnvSteps
    /\ fs[p].exists
    /\ fs' = [fs EXCEPT ![p] = NoFile]
    /\ env' = env + 1
    /\ last' = Step("env", "removed", p, 0, Len(students))
    /\ UNCHANGED <<students, phase, upd, edits, loadedFrom, joke, quiz>>

Next ==
    \/ Start
    \/ \E query \in Queries : view_individual(query)
    \/ \E form \in AddForms : submit(form)
    \/ \E query \in Queries, confirm \in BOOLEAN : delete_record(query, confirm)
    \/ \E query \in Queries : update_record(query)
    \/ \E ch \in UpdateForms : apply_changes(ch)
    \/ CloseUpdate
    \/ \E p \in 1..NumPaths, text \in EnvTexts : EnvCreate(p, text)
    \/ \E p \in 1..NumPaths : EnvRemove(p)

Spec == Init /\ [][Next]_vars

(***************************************************************************)
(* Sessions with the sort and the two queries by total, the outside world  *)
(* leaving the files alone.                                                *)
(***************************************************************************)
\* a third record: its total is the total of LineAnn
LineNan == JoinComma(<<<<"N", "3">>, <<"N", "a", "n">>, <<"2", "0">>, <<"2", "0">>,
                       <<"1", "5">>, <<"0">>>>)

InitSortFiles ==
    { <<File(TextOf(<< <<"3">>, LineAnn, LineBan, LineNan >>)), NoFile>>,
      <<NoFile, File(TextOf(<< <<"2">>, LineNan, LineAnn >>))>>,
      <<NoFile, NoFile>> }

InitSort ==
    /\ fs \in InitSortFiles
    /\ students = <<>>
    /\ phase = "boot"
    /\ upd = 0
    /\ env = 0
    /\ edits = 0
    /\ loadedFrom = 0
    /\ last = Step("none", "none", 0, 0, 0)
    /\ joke = NotStarted
    /\ quiz = NotStarted

NextSort ==
    \/ Start
    \/ view_all
    \/ \E query \in Queries : view_individual(query)
    \/ show_highest
    \/ show_lowest
    \/ \E reverse \in BOOLEAN : do_sort(reverse)
    \/ \E form \in AddForms : submit(form)
    \/ \E query \in Queries, confirm \in BOOLEAN : delete_record(query, confirm)
    \/ \E query \in Queries : update_record(query)
    \/ \E ch \in UpdateForms : apply_changes(ch)
    \/ CloseUpdate

SpecSort == InitSort /\ [][NextSort]_vars

(***************************************************************************)
(* Properties.                                                             *)
(***************************************************************************)
\* the step just taken called save_students
SaveAttempted ==
    /\ last.op \in {"add", "delete", "update"}
    /\ last.outcome \in {"saved", "save_failed"}

\* the step just taken was an add, delete or update whose save returned True
MutationSaved ==
    /\ last.op \in {"add", "delete", "update"}
    /\ last.outcome = "saved"

NoCommaOrNewline(text) == \A i \in 1..Len(text) : text[i] \notin {",", "\n"}

\* id and name without comma, newline or surrounding whitespace
Clean(s) ==
    /\ NoCommaOrNewline(s.sid) /\ NoCommaOrNewline(s.name)
    /\ Strip(s.sid) = s.sid /\ Strip(s.name) = s.name

AllClean(studs) == \A i \in 1..Len(studs) : Clean(studs[i])

\* C1: a record whose id and name hold no comma or newline and no surrounding
\* whitespace is read back unchanged from the line to_line writes for it (the line
\* is trimmed, split on commas into six fields, and a Student is constructed);
\* and a collection of such records is read back unchanged, in the same order,
\* from the text save_students writes for it.
C1_RoundTrip ==
    /\ \A i \in 1..Len(students) :
          Clean(students[i]) =>
              LET lines == FileLines(to_line(students[i]))
              IN  /\ Len(lines) = 1
                  /\ Len(LineParts(lines[1])) = 6
                  /\ StudentOfParts(LineParts(lines[1]))
                         = [ok |-> TRUE, rec |-> students[i]]
    /\ AllClean(students) => LoadText(SaveText(students)) = Loaded(students)

\* C1 witness: a save wrote a collection of two or more such records, one of
\* them with a negative mark, and one with a mark of three digits
C1_Witness ==
    /\ MutationSaved
    /\ Len(students) >= 2 /\ AllClean(students)
    /\ fs[last.path].text = SaveText(students)
    /\ \E i \in 1..Len(students) : students[i].coursework[1] < 0
    /\ \E i \in 1..Len(students) : students[i].exam = 100

\* C2 as stated: after every add, delete or update whose save returned True, the
\* records read from the file that was written equal the collection in memory,
\* record for record and in the same order.
C2_FileEqualsMemory ==
    MutationSaved => LoadText(fs[last.path].text) = Loaded(students)

\* C2 as amended: the same, for a collection in which no id and no name holds a
\* comma or a newline.
C2_FileEqualsCleanMemory ==
    (MutationSaved /\ AllClean(students))
        => LoadText(fs[last.path].text) = Loaded(students)

\* C2 witness: an update was saved, the collection holds two or more records
\* without comma, and the file reads back as the collection
C2_Witness ==
    /\ last.op = "update" /\ last.outcome = "saved"
    /\ Len(students) >= 2 /\ AllClean(students)
    /\ LoadText(fs[last.path].text) = Loaded(students)

\* C3: after a save that returned True the written file holds, split at its
\* newlines, the number of records as its first line, then exactly one line per
\* record, the line to_line gives, in collection order, and nothing else.
C3_SaveOverwrites ==
    MutationSaved =>
        LET raw == Split(fs[last.path].text, "\n")
        IN  /\ fs[last.path].exists
            /\ Len(raw) = Len(students) + 2
            /\ PyInt(raw[1]) = [ok |-> TRUE, val |-> Len(students)]
            /\ \A i \in 1..Len(students) : raw[i + 1] \o <<"\n">> = to_line(students[i])
            /\ raw[Len(raw)] = <<>>

\* C3 witness: a delete was saved over a longer file, and records remain
C3_Witness ==
    /\ last.op = "delete" /\ last.outcome = "saved"
    /\ students # <<>> /\ last.n > Len(students)
    /\ Len(Split(fs[last.path].text, "\n")) = Len(students) + 2

\* the step just taken was load_students reading a file
LoadedAFile == last.op = "load" /\ last.path # 0

\* what the load just taken returned or raised
LoadResult == [status |-> last.outcome, students |-> students]

RECURSIVE JoinNewline(_)
JoinNewline(lines) ==
    IF lines = <<>> THEN <<>>
    ELSE IF Len(lines) = 1 THEN lines[1]
    ELSE lines[1] \o <<"\n">> \o JoinNewline(Tail(lines))

\* index of the first line of the text that is not blank, 0 when there is none
FirstLineAt(text) ==
    LET raw == Split(text, "\n")
        at  == {i \in 1..Len(raw) : Strip(raw[i]) # <<>>}
    IN  IF at = {} THEN 0 ELSE SetMin(at)

\* the first line of the text is a bare integer
HasCountLine(text) ==
    /\ FirstLineAt(text) # 0
    /\ PyInt(Split(text, "\n")[FirstLineAt(text)]).ok

\* the text with its first line removed
WithoutFirstLine(text) ==
    LET raw == Split(text, "\n")
        k   == FirstLineAt(text)
    IN  JoinNewline(SubSeq(raw, 1, k - 1) \o SubSeq(raw, k + 1, Len(raw)))

\* C4 as stated: load_students on a file with a leading bare-integer line and on
\* the same file without that line give the same collection, whatever follows the
\* line, nothing included.
C4_CountLineDecorative ==
    (LoadedAFile /\ HasCountLine(fs[last.path].text))
        => LoadText(WithoutFirstLine(fs[last.path].text)) = LoadResult

\* the lines load_students iterates over: the non-blank lines, trimmed, without
\* the count line
BodyLines(text) ==
    LET lines == FileLines(text)
    IN  IF lines # <<>> /\ PyInt(lines[1]).ok THEN Tail(lines) ELSE lines

SixFields(line) == Len(LineParts(line)) = 6

WellFormed(line) == SixFields(line) /\ StudentOfParts(LineParts(line)).ok

\* the file holds a line of six fields with a mark that is no integer
HasBadMarkLine(text) ==
    \E i \in 1..Len(BodyLines(text)) :
        SixFields(BodyLines(text)[i]) /\ ~WellFormed(BodyLines(text)[i])

\* the file holds a line that does not split into six fields
HasOddLine(text) ==
    \E i \in 1..Len(BodyLines(text)) : ~SixFields(BodyLines(text)[i])

\* the k-th smallest element of a set of numbers
KthOf(S, k) == CHOOSE i \in S : Cardinality({j \in S : j <= i}) = k

\* C5 as stated: when the file holds a six-field line with a mark that does not
\* parse as an integer, load_students raises nothing and returns the records of
\* the well-formed lines, in file order.
C5_BadMarkLineSkipped ==
    (LoadedAFile /\ HasBadMarkLine(fs[last.path].text)) =>
        LET good == SelectSeq(BodyLines(fs[last.path].text), WellFormed)
        IN  /\ last.outcome = "ok" /\ phase = "run"
            /\ Len(students) = Len(good)
            /\ \A k \in 1..Len(good) :
                  students[k] = StudentOfParts(LineParts(good[k])).rec

\* C6 as stated: when the file holds a line that does not split into six fields,
\* load_students raises nothing, and what it returns holds no record for such a
\* line and holds the records of the other lines, in file order.
C6_OddLinesOmitted ==
    (LoadedAFile /\ HasOddLine(fs[last.path].text)) =>
        LET text == fs[last.path].text
            rest == {i \in 1..Len(BodyLines(text)) : WellFormed(BodyLines(text)[i])}
        IN  /\ last.outcome = "ok" /\ phase = "run"
            /\ Len(students) = Cardinality(rest)
            /\ \A k \in 1..Len(students) :
                  [ok |-> TRUE, rec |-> students[k]]
                      = StudentOfParts(LineParts(BodyLines(text)[KthOf(rest, k)]))

NoCandidate == \A p \in 1..NumPaths : ~fs[p].exists

\* C7: while no candidate file exists, load_students returns the empty collection
\* without raising, and every save_students returns False and leaves the files as
\* they are: none is created, none is written.
C7_NoCandidateFile ==
    [][NoCandidate =>
          /\ last'.op = "load"
                => (students' = <<>> /\ phase' = "run" /\ last'.outcome = "nofile")
          /\ SaveAttempted' => (last'.outcome = "save_failed" /\ fs' = fs)]_vars

\* C7 witness: the session started without a candidate file, and an add that
\* passed the checks had its save fail, still without a candidate file
C7_Witness ==
    /\ NoCandidate /\ loadedFrom = 0 /\ env = 0
    /\ last.op = "add" /\ last.outcome = "save_failed"
    /\ students # <<>>

\* C8 as stated: a save that succeeds writes the path load_students resolved, and
\* a save fails when load_students resolved none.
C8_SavePathIsLoadPath ==
    /\ MutationSaved => last.path = loadedFrom
    /\ (SaveAttempted /\ loadedFrom = 0) => last.outcome = "save_failed"

\* a and b are equal ignoring case
EqualIgnoringCase(a, b) ==
    /\ Len(a) = Len(b)
    /\ \A k \in 1..Len(a) : LowerChar(a[k]) = LowerChar(b[k])

\* text holds sub at some offset, ignoring case
HoldsIgnoringCase(text, sub) ==
    \E o \in 0..(Len(text) - Len(sub)) :
        \A k \in 1..Len(sub) : LowerChar(text[o + k]) = LowerChar(sub[k])

\* the record matches the query: its id equals the trimmed query ignoring case,
\* or its name holds the trimmed query ignoring case
Matches(s, query) ==
    \/ EqualIgnoringCase(s.sid, Strip(query))
    \/ HoldsIgnoringCase(s.name, Strip(query))

\* C9: for every collection the session reaches and every query, _find_student
\* returns the first record in collection order that matches the query, and None
\* when no record matches; the query "a1" finds a record with id "A1".
C9_FindFirstMatch ==
    \A query \in Queries :
        LET r == find_student(students, query)
        IN  /\ r \in 0..Len(students)
            /\ r = 0 => \A i \in 1..Len(students) : ~Matches(students[i], query)
            /\ r # 0 => /\ Matches(students[r], query)
                        /\ \A i \in 1..(r - 1) : ~Matches(students[i], query)
            /\ (students # <<>> /\ students[1].sid = sA1)
                  => find_student(students, <<"a", "1">>) = 1

\* C9 witness: the search dialog found a record that is not the first of the
\* collection, by an id that differs from the query in case
C9_Witness ==
    /\ last.op = "view" /\ last.outcome = "shown"
    /\ last.found >= 2
    /\ students[last.found].sid = sA1
    /\ find_student(students, <<" ", "a", "1">>) = last.found

\* C10: a delete that was confirmed leaves no record with the id of the record
\* found, and leaves the records with another id, all of them, in their order.
C10_DeleteRemovesAll ==
    [][(last'.op = "delete" /\ last'.outcome \in {"saved", "save_failed"}) =>
          LET sid  == students[last'.found].sid
              keep == {i \in 1..Len(students) : students[i].sid # sid}
          IN  /\ \A k \in 1..Len(students') : students'[k].sid # sid
              /\ Len(students') = Cardinality(keep)
              /\ \A k \in 1..Len(students') : students'[k] = students[KthOf(keep, k)]]_vars

\* C10 witness: a delete removed two records at once and left another
C10_Witness ==
    /\ last.op = "delete" /\ last.outcome = "saved"
    /\ last.n - Len(students) >= 2
    /\ students # <<>>

(***************************************************************************)
(* Sessions over a file of one record, for the totals and the grade: the   *)
(* marks range over values below, inside and above what the Add form       *)
(* accepts, the exam mark over every value of its range.                   *)
(***************************************************************************)
GradeMarks1 == {-5, 10, 50}

GradeMarks2 == {0, 10}

GradeMarks3 == {10, 50}

GradeExams == 0..100

GradeLine(c1, c2, c3, exam) ==
    JoinComma(<<sA1, nAnn, IntToStr(c1), IntToStr(c2), IntToStr(c3), IntToStr(exam)>>)

InitGradeFiles ==
    { <<File(TextOf(<< <<"1">>, GradeLine(c1, c2, c3, exam) >>)), NoFile>> :
          <<c1, c2, c3, exam>> \in
              GradeMarks1 \X GradeMarks2 \X GradeMarks3 \X GradeExams }

InitGrade ==
    /\ fs \in InitGradeFiles
    /\ students = <<>>
    /\ phase = "boot"
    /\ upd = 0
    /\ env = 0
    /\ edits = 0
    /\ loadedFrom = 0
    /\ last = Step("none", "none", 0, 0, 0)
    /\ joke = NotStarted
    /\ quiz = NotStarted

NextGrade ==
    \/ Start
    \/ \E query \in Queries : view_individual(query)
    \/ show_highest
    \/ show_lowest

SpecGrade == InitGrade /\ [][NextGrade]_vars

(***************************************************************************)
(* The joke machine of 02-Alexajoke.py.  joke holds the fields of JokeApp, *)
(* the text of its two labels and the queue of its pending fade_in_label   *)
(* callbacks; speech and sound run in threads that touch none of these.    *)
(***************************************************************************)
\* the most fade_in_label callbacks pending at a time
MaxFades == 2

\* the variables of the student manager
storeVars == <<fs, students, phase, upd, env, edits, loadedFrom>>

\* the joke load_jokes returns when the file is missing
MissingJoke ==
    << <<"E", "r", "r", "o", "r", ":">>,
       <<"r", "a", "n", "d", "o", "m", "J", "o", "k", "e", "s", ".", "t", "x", "t",
         " ", "n", "o", "t", " ", "f", "o", "u", "n", "d", ".">> >>

\* setup, punchline = line.strip().split("?", 1); (setup + "?", punchline)
JokeOfLine(line) ==
    LET l  == Strip(line)
        at == SetMin({i \in 1..Len(l) : l[i] = "?"})
    IN  <<SubSeq(l, 1, at), SubSeq(l, at + 1, Len(l))>>

\* load_jokes: one joke per line that holds a question mark
load_jokes(file) ==
    IF ~file.exists THEN <<MissingJoke>>
    ELSE LET HasMark(l) == \E i \in 1..Len(l) : l[i] = "?"
             kept == SelectSeq(Split(file.text, "\n"), HasMark)
         IN  [i \in 1..Len(kept) |-> JokeOfLine(kept[i])]

\* texts of randomJokes.txt: two jokes; a line with two question marks and
\* blanks around it, and a line without question mark; no joke at all
JokeFiles ==
    { NoFile,
      File(<<"Q", "?", "A", "\n", "W", "?", "B", "b", "\n">>),
      File(<<" ", "a", "?", "b", "?", "c", " ", "\n", "x", "y", "\n">>),
      File(<<"x", "y", "\n">>) }

\* self.regions, in the order of the dictionary
Regions ==
    << [action |-> "Tell Joke", x1 |-> 50, y1 |-> 470, x2 |-> 380, y2 |-> 530],
       [action |-> "Show Punchline", x1 |-> 50, y1 |-> 540, x2 |-> 380, y2 |-> 610],
       [action |-> "Next Joke", x1 |-> 50, y1 |-> 630, x2 |-> 380, y2 |-> 680],
       [action |-> "Exit", x1 |-> 400, y1 |-> 660, x2 |-> 1280, y2 |-> 710] >>

\* the action of the first region that holds the point, "none" outside all
RegionAt(x, y) ==
    LET hit == {k \in 1..Len(Regions) :
                   /\ Regions[k].x1 <= x /\ x <= Regions[k].x2
                   /\ Regions[k].y1 <= y /\ y <= Regions[k].y2}
    IN  IF hit = {} THEN "none" ELSE Regions[SetMin(hit)].action

\* points of the canvas: corners and insides of the regions, and points
\* just outside them
ClickPoints ==
    { <<50, 470>>, <<380, 530>>, <<200, 575>>, <<50, 630>>, <<380, 680>>,
      <<400, 660>>, <<381, 500>>, <<200, 535>>, <<640, 300>> }

\* fade_in_label(label, full_text, index): sets the label to the first index
\* characters and schedules the next call, or does nothing past the end
fade_in_label(j, label, full_text, index) ==
    IF index <= Len(full_text)
    THEN [j EXCEPT ![label] = SubSeq(full_text, 1, index),
                   !.timers = Append(@, [label |-> label, text |-> full_text,
                                          index |-> index + 1])]
    ELSE j

\* show_joke once random.choice returned the joke at index i
show_joke(j, i) ==
    LET cleared == [j EXCEPT !.current_joke = i, !.setup_label = <<>>,
                             !.punchline_label = <<>>]
        faded   == fade_in_label(cleared, "setup_label", j.jokes[i][1], 0)
    IN  [faded EXCEPT !.can_show_punchline = TRUE, !.can_next = FALSE]

\* show_punchline
show_punchline(j) ==
    IF j.current_joke # 0 /\ j.can_show_punchline
    THEN LET faded == fade_in_label(j, "punchline_label",
                                    j.jokes[j.current_joke][2], 0)
         IN  [faded EXCEPT !.can_show_punchline = FALSE, !.can_next = TRUE]
    ELSE j

InitJoke ==
    /\ fs = <<NoFile, NoFile>>
    /\ students = <<>>
    /\ phase = "boot"
    /\ upd = 0
    /\ env = 0
    /\ edits = 0
    /\ loadedFrom = 0
    /\ last = Step("none", "none", 0, 0, 0)
    /\ quiz = NotStarted
    /\ \E file \in JokeFiles :
          joke = [screen |-> "boot", file |-> file, jokes |-> <<>>,
                  current_joke |-> 0, setup_label |-> <<>>,
                  punchline_label |-> <<>>, can_show_punchline |-> FALSE,
                  can_next |-> FALSE, timers |-> <<>>]

\* JokeApp.__init__
JokeStart ==
    /\ joke.screen = "boot"
    /\ joke' = [joke EXCEPT !.screen = "run", !.jokes = load_jokes(joke.file),
                            !.current_joke = 0, !.can_show_punchline = FALSE,
                            !.can_next = FALSE]
    /\ last' = Step("init", "started", 0, 0, 0)
    /\ UNCHANGED <<storeVars, quiz>>

\* on_click in "Tell Joke" or "Next Joke": show_joke; random.choice raises
\* IndexError on an empty list, before anything is assigned
ClickShowJoke(x, y) ==
    /\ joke.screen = "run"
    /\ RegionAt(x, y) \in {"Tell Joke", "Next Joke"}
    /\ Len(joke.timers) < MaxFades
    /\ IF joke.jokes = <<>>
       THEN /\ last' = Step(RegionAt(x, y), "IndexError", 0, 0, 0)
            /\ UNCHANGED joke
       ELSE \E i \in 1..Len(joke.jokes) :
               /\ joke' = show_joke(joke, i)
               /\ last' = Step(RegionAt(x, y), "shown", 0, i, 0)
    /\ UNCHANGED <<storeVars, quiz>>

\* on_click in "Show Punchline"
ClickShowPunchline(x, y) ==
    /\ joke.screen = "run"
    /\ RegionAt(x, y) = "Show Punchline"
    /\ Len(joke.timers) < MaxFades
    /\ joke' = show_punchline(joke)
    /\ last' = Step("Show Punchline",
                    IF joke' = joke THEN "ignored" ELSE "revealed",
                    0, joke.current_joke, 0)
    /\ UNCHANGED <<storeVars, quiz>>

\* on_click in "Exit": root.quit() ends the main loop
ClickExit(x, y) ==
    /\ joke.screen = "run"
    /\ RegionAt(x, y) = "Exit"
    /\ joke' = [joke EXCEPT !.screen = "quit"]
    /\ last' = Step("Exit", "quit", 0, 0, 0)
    /\ UNCHANGED <<storeVars, quiz>>

\* on_click outside every region
ClickOutside(x, y) ==
    /\ joke.screen = "run"
    /\ RegionAt(x, y) = "none"
    /\ last' = Step("none", "ignored", 0, 0, 0)
    /\ UNCHANGED <<storeVars, joke, quiz>>

\* the oldest pending root.after(20, ...) callback of fade_in_label runs; all
\* delays are equal, so the callbacks run in the order they were scheduled
FadeTick ==
    /\ joke.screen = "run"
    /\ joke.timers # <<>>
    /\ LET t == Head(joke.timers)
       IN  joke' = fade_in_label([joke EXCEPT !.timers = Tail(@)],
                                 t.label, t.text, t.index)
    /\ last' = Step("fade", Head(joke.timers).label, 0, 0, 0)
    /\ UNCHANGED <<storeVars, quiz>>

NextJoke ==
    \/ JokeStart
    \/ \E pt \in ClickPoints : ClickShowJoke(pt[1], pt[2])
    \/ \E pt \in ClickPoints : ClickShowPunchline(pt[1], pt[2])
    \/ \E pt \in ClickPoints : ClickExit(pt[1], pt[2])
    \/ \E pt \in ClickPoints : ClickOutside(pt[1], pt[2])
    \/ FadeTick

SpecJoke == InitJoke /\ [][NextJoke]_vars

(***************************************************************************)
(* The maths quiz of 01-Mathquiz.py.  quiz holds the fields of             *)
(* MathsQuizApp, the screen on display and the number of pending           *)
(* root.after callbacks, all of them calls of next_problem; sounds and     *)
(* images touch none of these.  num1, num2 and op are shown and not read   *)
(* again, the model keeps correct_answer only.                             *)
(***************************************************************************)
\* the most next_problem callbacks pending at a time
MaxPending == 2

NUM_QUESTIONS == 10

\* the regions of displayMenu, in the order of the dictionary
MenuRegions ==
    << [level |-> "Easy", x1 |-> 270, y1 |-> 200, x2 |-> 530, y2 |-> 250],
       [level |-> "Moderate", x1 |-> 270, y1 |-> 300, x2 |-> 530, y2 |-> 350],
       [level |-> "Advanced", x1 |-> 270, y1 |-> 380, x2 |-> 530, y2 |-> 430] >>

\* the levels whose region holds the point
LevelsAt(x, y) ==
    {MenuRegions[k].level : k \in
        {k \in 1..Len(MenuRegions) :
            /\ MenuRegions[k].x1 <= x /\ x <= MenuRegions[k].x2
            /\ MenuRegions[k].y1 <= y /\ y <= MenuRegions[k].y2}}

\* points of the menu: a corner or an inside point of each region, and points
\* outside all of them
MenuPoints == { <<270, 200>>, <<530, 350>>, <<400, 400>>, <<269, 200>>, <<400, 275>> }

\* randomInt: the least and the greatest operand of a difficulty
randomInt(difficulty) ==
    IF difficulty = "Easy" THEN <<0, 9>>
    ELSE IF difficulty = "Moderate" THEN <<10, 99>>
    ELSE IF difficulty = "Advanced" THEN <<1000, 9999>>
    ELSE <<0, 9>>

\* the answers next_problem can set for operands at the ends of the range:
\* a + b, or a - b after the swap that keeps it from being negative
CorrectAnswers(difficulty) ==
    LET ends == {randomInt(difficulty)[1], randomInt(difficulty)[2]}
    IN  {a + b : a \in ends, b \in ends}
          \cup {(IF a < b THEN b - a ELSE a - b) : a \in ends, b \in ends}

\* isCorrect: int() of the trimmed text equals the answer, False when int() raises
isCorrect(user_answer_str, correct_answer) ==
    LET user_answer == PyInt(Strip(user_answer_str))
    IN  user_answer.ok /\ user_answer.val = correct_answer

\* what the user typed into the answer entry before Submit: nothing, a blank,
\* the answer, the answer with blanks and a sign, a word, another number
AnswerChoices == {"empty", "blank", "answer", "padded", "word", "other"}

\* self.answer_entry.get() for such a choice
EntryText(choice, correct_answer) ==
    IF choice = "empty" THEN <<>>
    ELSE IF choice = "blank" THEN <<" ">>
    ELSE IF choice = "answer" THEN IntToStr(correct_answer)
    ELSE IF choice = "padded" THEN <<" ", "+">> \o IntToStr(correct_answer) \o <<" ">>
    ELSE IF choice = "word" THEN <<"x">>
    ELSE IntToStr(correct_answer + 1)

\* round(n / d) for n >= 0 and d > 0, halves to the even neighbour
Round(n, d) ==
    LET q == n \div d
        r == n % d
    IN  IF 2 * r < d THEN q
        ELSE IF 2 * r > d THEN q + 1
        ELSE IF q % 2 = 0 THEN q ELSE q + 1

\* percent = round((self.raw_score / (NUM_QUESTIONS * 10)) * 100)
percent(raw_score) == Round(raw_score * 100, NUM_QUESTIONS * 10)

\* the grade displayResults shows
results_grade(score) ==
    IF score >= 90 THEN "A+"
    ELSE IF score >= 80 THEN "A"
    ELSE IF score >= 70 THEN "B"
    ELSE IF score >= 60 THEN "C"
    ELSE IF score >= 50 THEN "D"
    ELSE "F"

\* the step just taken of the quiz: the handler, how it ended, and the score
\* and grade of the results dialog when it showed one
QuizStep(op, outcome, score, letter) ==
    [op |-> op, outcome |-> outcome, score |-> score, grade |-> letter]

InitQuiz ==
    /\ fs = <<NoFile, NoFile>>
    /\ students = <<>>
    /\ phase = "boot"
    /\ upd = 0
    /\ env = 0
    /\ edits = 0
    /\ loadedFrom = 0
    /\ last = QuizStep("none", "none", 0, "")
    /\ joke = NotStarted
    /\ quiz = [screen |-> "boot", difficulty |-> "", current_q |-> 0,
               raw_score |-> 0, attempt |-> 1, correct_answer |-> 0,
               pending |-> 0,
               \* history: the question on display was answered correctly or
               \* wrongly for the second time
               done |-> FALSE]

\* run_app and MathsQuizApp.__init__: the menu is displayed
QuizStart ==
    /\ quiz.screen = "boot"
    /\ quiz' = [quiz EXCEPT !.screen = "menu"]
    /\ last' = QuizStep("init", "menu", 0, "")
    /\ UNCHANGED <<storeVars, joke>>

\* the assignments of next_problem below the test of current_q, with the
\* answer of the question drawn
NewQuestion(q, answer) ==
    [q EXCEPT !.attempt = 1, !.current_q = @ + 1, !.correct_answer = answer,
              !.done = FALSE]

\* on_click of the menu in the region of a level: start_quiz, which ends with
\* a direct call of next_problem
start_quiz(x, y) ==
    /\ quiz.screen = "menu"
    /\ \E level \in LevelsAt(x, y) : \E answer \in CorrectAnswers(level) :
          /\ quiz' = NewQuestion([quiz EXCEPT !.screen = "quiz",
                                              !.difficulty = level,
                                              !.current_q = 0, !.raw_score = 0,
                                              !.attempt = 1],
                                 answer)
          /\ last' = QuizStep("start_quiz", level, 0, "")
    /\ UNCHANGED <<storeVars, joke>>

\* on_click of the menu outside every region
MenuClickOutside(x, y) ==
    /\ quiz.screen = "menu"
    /\ LevelsAt(x, y) = {}
    /\ last' = QuizStep("menu_click", "ignored", 0, "")
    /\ UNCHANGED <<storeVars, joke, quiz>>

\* submit_answer, with what the user typed into the answer entry
submit_answer(choice) ==
    /\ quiz.screen = "quiz"
    /\ LET text == EntryText(choice, quiz.correct_answer) IN
       IF Strip(text) = <<>>
       THEN /\ last' = QuizStep("submit", "empty", 0, "")
            /\ UNCHANGED quiz
       ELSE IF isCorrect(Strip(text), quiz.correct_answer)
       THEN /\ quiz.pending < MaxPending
            /\ quiz' = [quiz EXCEPT
                           !.raw_score = @ + (IF quiz.attempt = 1 THEN 10 ELSE 5),
                           !.pending = @ + 1, !.done = TRUE]
            /\ last' = QuizStep("submit", "correct", 0, "")
       ELSE IF quiz.attempt = 1
       THEN /\ quiz' = [quiz EXCEPT !.attempt = 2]
            /\ last' = QuizStep("submit", "try_again", 0, "")
       ELSE /\ quiz.pending < MaxPending
            /\ quiz' = [quiz EXCEPT !.pending = @ + 1, !.done = TRUE]
            /\ last' = QuizStep("submit", "incorrect", 0, "")
    /\ UNCHANGED <<storeVars, joke>>

\* return_to_menu: the widgets are destroyed and the menu displayed; the
\* pending callbacks are not cancelled
return_to_menu ==
    /\ quiz.screen = "quiz"
    /\ quiz' = [quiz EXCEPT !.screen = "menu"]
    /\ last' = QuizStep("return_to_menu", "menu", 0, "")
    /\ UNCHANGED <<storeVars, joke>>

\* a pending root.after callback runs next_problem, with the answer to
\* "Play again?", which is asked only when the results are shown.  After
\* return_to_menu the labels are destroyed: header_label.config raises
\* TclError once attempt, current_q and correct_answer are assigned.
next_problem(play_again) ==
    /\ quiz.screen \in {"menu", "quiz"}
    /\ quiz.pending > 0
    /\ IF quiz.current_q >= NUM_QUESTIONS
       THEN /\ quiz' = [quiz EXCEPT !.pending = @ - 1,
                                    !.screen = IF play_again THEN "menu" ELSE "quit"]
            /\ last' = QuizStep("next_problem", "results", percent(quiz.raw_score),
                                results_grade(percent(quiz.raw_score)))
       ELSE /\ play_again
            /\ \E answer \in CorrectAnswers(quiz.difficulty) :
                  quiz' = NewQuestion([quiz EXCEPT !.pending = @ - 1], answer)
            /\ last' = QuizStep("next_problem",
                                IF quiz.screen = "quiz" THEN "question" ELSE "TclError",
                                0, "")
    /\ UNCHANGED <<storeVars, joke>>

NextQuiz ==
    \/ QuizStart
    \/ \E pt \in MenuPoints : start_quiz(pt[1], pt[2])
    \/ \E pt \in MenuPoints : MenuClickOutside(pt[1], pt[2])
    \/ \E choice \in AnswerChoices : submit_answer(choice)
    \/ return_to_menu
    \/ \E play_again \in BOOLEAN : next_problem(play_again)

SpecQuiz == InitQuiz /\ [][NextQuiz]_vars

(***************************************************************************)
(* Properties of the sort, the grades and the queries by total.            *)
(***************************************************************************)
Reversed(seq) == [i \in 1..Len(seq) |-> seq[Len(seq) + 1 - i]]

\* after holds the records of before in the order of their totals, rising or,
\* with reverse, falling, and records of equal total in the order before had
\* them: some one-to-one placing f of the positions says so
StablySorted(before, after, reverse) ==
    /\ Len(after) = Len(before)
    /\ \E f \in [1..Len(before) -> 1..Len(before)] :
          /\ \A i, j \in 1..Len(before) : i # j => f[i] # f[j]
          /\ \A i \in 1..Len(before) : after[i] = before[f[i]]
          /\ \A i, j \in 1..Len(before) : i < j =>
                LET ti == total(before[f[i]])
                    tj == total(before[f[j]])
                IN  \/ IF reverse THEN ti > tj ELSE ti < tj
                    \/ ti = tj /\ f[i] < f[j]

DistinctTotals(studs) ==
    \A i, j \in 1..Len(studs) : i # j => total(studs[i]) # total(studs[j])

\* a descending sort that follows an ascending sort
DescAfterAsc ==
    /\ last.op = "sort" /\ last.outcome = "asc"
    /\ last'.op = "sort" /\ last'.outcome = "desc"

\* C11 as stated: sorting ascending and then descending yields exactly the
\* reverse of the ascending order.
C11_DescReversesAsc ==
    [][DescAfterAsc => students' = Reversed(students)]_vars

\* C11, amended: every sort is stable, it orders the records by total and
\* leaves records of equal total in the order they had; a descending sort after
\* an ascending one yields the reverse of the ascending order when no two
\* records have the same total.
C11_StableSorts ==
    [][last'.op = "sort" =>
          /\ StablySorted(students, students', last'.outcome = "desc")
          /\ (DescAfterAsc /\ DistinctTotals(students))
                => students' = Reversed(students)]_vars

\* C11 witness: a descending sort left two different records of equal total in
\* the order the ascending sort gives them, so the result is not the ascending
\* order read backwards
C11_Witness ==
    /\ last.op = "sort" /\ last.outcome = "desc"
    /\ Len(students) >= 3
    /\ \E i \in 1..(Len(students) - 1) :
          /\ total(students[i]) = total(students[i + 1])
          /\ students[i] # students[i + 1]
    /\ students # Reversed(sort_by_total(students, FALSE))
    /\ ~DistinctTotals(students)

\* C12: the coursework total of a record is the sum of its three coursework
\* marks, its overall total the coursework total plus the exam mark, and its
\* grade follows the total: A from 112 (70% of 160), B from 96, C from 80,
\* D from 64, F below; marks 10, 10, 10 and exam 20 give 30, 50 and F.
C12_Grades ==
    \A i \in 1..Len(students) :
        LET s  == students[i]
            cw == s.coursework[1] + s.coursework[2] + s.coursework[3]
            t  == cw + s.exam
        IN  /\ coursework_total(s) = cw
            /\ total(s) = t
            /\ grade(s) = "A" <=> t >= 112
            /\ grade(s) = "B" <=> (t >= 96 /\ t < 112)
            /\ grade(s) = "C" <=> (t >= 80 /\ t < 96)
            /\ grade(s) = "D" <=> (t >= 64 /\ t < 80)
            /\ grade(s) = "F" <=> t < 64
            /\ (s.coursework = <<10, 10, 10>> /\ s.exam = 20)
                  => (coursework_total(s) = 30 /\ total(s) = 50 /\ grade(s) = "F")

\* C12 witness: the record with marks 10, 10, 10 and exam 20 is on display, with
\* coursework total 30, overall total 50 and grade F
C12_Witness ==
    /\ last.op = "highest" /\ last.outcome = "shown"
    /\ students[last.found].coursework = <<10, 10, 10>>
    /\ students[last.found].exam = 20
    /\ coursework_total(students[last.found]) = 30
    /\ total(students[last.found]) = 50
    /\ grade(students[last.found]) = "F"

\* C13: show_highest displays a record whose total no record exceeds,
\* show_lowest one whose total no record is below, and of several such records
\* the first of the collection; on an empty collection neither selects a record.
C13_FirstExtreme ==
    last.op \in {"highest", "lowest"} =>
        IF students = <<>>
        THEN last.outcome = "no_data" /\ last.found = 0
        ELSE /\ last.outcome = "shown"
             /\ last.found \in 1..Len(students)
             /\ \A i \in 1..Len(students) :
                   LET ti == total(students[i])
                       tf == total(students[last.found])
                   IN  IF last.op = "highest"
                       THEN ti <= tf /\ (i < last.found => ti < tf)
                       ELSE ti >= tf /\ (i < last.found => ti > tf)

\* C13 witness: the highest total is shared by two different records and the
\* one displayed is the earlier of them, a record of lower total coming first
C13_Witness ==
    /\ last.op = "highest" /\ last.outcome = "shown"
    /\ last.found >= 2
    /\ \E j \in (last.found + 1)..Len(students) :
          /\ total(students[j]) = total(students[last.found])
          /\ students[j] # students[last.found]

\* a record the Add form would accept: marks in range, id and name not empty
InRange(s) ==
    /\ \A k \in 1..3 : s.coursework[k] >= 0 /\ s.coursework[k] <= 50
    /\ s.exam >= 0 /\ s.exam <= 100
    /\ s.sid # <<>> /\ s.name # <<>>

AllInRange(studs) == \A i \in 1..Len(studs) : InRange(studs[i])

\* the content of the Add form breaks a rule: the id or the name is empty, a
\* mark is no integer or lies outside its range
BreaksRule(form) ==
    \/ Strip(form.sid) = <<>> \/ Strip(form.name) = <<>>
    \/ \E m \in {form.c1, form.c2, form.c3} :
          ~PyInt(m).ok \/ PyInt(m).val < 0 \/ PyInt(m).val > 50
    \/ ~PyInt(form.exam).ok \/ PyInt(form.exam).val < 0 \/ PyInt(form.exam).val > 100

\* C14: an add, an update, a delete or a sort of a collection whose records all
\* have coursework marks in 0..50, an exam mark in 0..100 and an id and a name
\* that are not empty leaves such a collection, so the records stay in range
\* from a load in range on; and an Add submission that breaks one of these rules
\* changes neither the collection nor the files.
C14_RangesKept ==
    [][/\ (last'.op \in {"add", "update", "delete", "sort"} /\ AllInRange(students))
             => AllInRange(students')
       /\ \A form \in AddForms :
             (submit(form) /\ BreaksRule(form))
                => (students' = students /\ fs' = fs /\ last'.outcome = "invalid")]_vars

\* C14 witness: the records loaded were in range, one of them was since given
\* the marks at the ends of the ranges, and an Add submission that breaks a rule
\* has just been turned down
C14_Witness ==
    /\ last.op = "add" /\ last.outcome = "invalid"
    /\ loadedFrom = 2
    /\ students # <<>> /\ AllInRange(students)
    /\ \E i \in 1..Len(students) :
          /\ students[i].coursework[1] = 50 /\ students[i].coursework[3] = 0
          /\ students[i].exam = 100

\* C15: an Add submission that is accepted puts exactly one record at the end
\* of the collection and leaves the records before it as they were, in their
\* order; the id is not compared with the ids present, so a record whose id is
\* already there is added all the same, and a lookup by that id afterwards
\* finds a record that was there before, not the new one.
C15_AddAppends ==
    [][(last'.op = "add" /\ last'.outcome \in {"saved", "save_failed"}) =>
          LET n    == Len(students)
              new  == students'[n + 1]
              same == {i \in 1..n : students[i].sid = new.sid}
              r    == find_student(students', new.sid)
          IN  /\ Len(students') = n + 1
              /\ \A i \in 1..n : students'[i] = students[i]
              /\ InRange(new)
              /\ same # {} => (r \in 1..n /\ r <= SetMin(same)
                                /\ Matches(students'[r], new.sid))]_vars

\* C15 witness: the record just added has the id of a record that was there
\* before, and the lookup by that id finds the earlier one
C15_Witness ==
    /\ last.op = "add" /\ last.outcome = "saved"
    /\ Len(students) = last.n + 1 /\ last.n >= 1
    /\ \E i \in 1..last.n : students[i].sid = students[Len(students)].sid
    /\ find_student(students, students[Len(students)].sid) < Len(students)

\* the field keeps its old value unless the answer holds a value, for a text
\* one that is not blank, and then takes that value, a text trimmed
TextAfter(answer, old, new) ==
    IF answer = <<>> \/ Strip(answer[1]) = <<>> THEN new = old
    ELSE new = Strip(answer[1])

MarkAfter(answer, old, new) == IF answer = <<>> THEN new = old ELSE new = answer[1]

\* C16: the Update dialog opens on the record _find_student returns for the
\* query; Apply Changes changes that record only, and of it only the fields
\* whose dialog returned a value (a text that is not blank): every other field
\* and every other record keeps its value, and the collection its order and
\* its length.
C16_UpdateOnlySelected ==
    [][/\ \A query \in Queries :
             update_record(query) =>
                upd' = IF query = <<>> THEN 0 ELSE find_student(students, query)
       /\ \A ch \in UpdateForms :
             apply_changes(ch) =>
                /\ Len(students') = Len(students)
                /\ \A i \in 1..Len(students) : i # upd => students'[i] = students[i]
                /\ LET old == students[upd]
                       new == students'[upd]
                   IN  /\ TextAfter(ch.sid, old.sid, new.sid)
                       /\ TextAfter(ch.name, old.name, new.name)
                       /\ MarkAfter(ch.cw1, old.coursework[1], new.coursework[1])
                       /\ MarkAfter(ch.cw2, old.coursework[2], new.coursework[2])
                       /\ MarkAfter(ch.cw3, old.coursework[3], new.coursework[3])
                       /\ MarkAfter(ch.exam, old.exam, new.exam)
                       /\ Len(new.coursework) = 3]_vars

\* C16 witness: an update gave new marks to a record that is not the first of
\* the collection and left its second coursework mark, its name and its id
C16_Witness ==
    /\ last.op = "update" /\ last.outcome = "saved"
    /\ last.found >= 2 /\ Len(students) >= 3
    /\ students[last.found].sid = sA1 /\ students[last.found].name = nAnn
    /\ students[last.found].coursework = <<50, 2, 0>>
    /\ students[last.found].exam = 100

\* C17: when the save of an add, a delete or an update fails, the files are as
\* they were and the collection keeps the change: the added record is at its
\* end, the records with the id of the record found are gone, the record under
\* update has the values given; so every accepted Add submission whose save
\* fails makes the collection one record longer, also one after another.
C17_FailedSaveKeepsChange ==
    [][last'.outcome = "save_failed" =>
          /\ fs' = fs
          /\ last'.op \in {"add", "delete", "update"}
          /\ \A form \in AddForms :
                submit(form) =>
                   /\ Len(students') = Len(students) + 1
                   /\ SubSeq(students', 1, Len(students)) = students
                   /\ students'[Len(students')].sid = Strip(form.sid)
                   /\ students'[Len(students')].name = Strip(form.name)
          /\ last'.op = "delete" =>
                /\ Len(students') < Len(students)
                /\ \A k \in 1..Len(students') :
                      students'[k].sid # students[last'.found].sid
          /\ \A ch \in UpdateForms :
                apply_changes(ch) =>
                   /\ upd' = upd
                   /\ TextAfter(ch.name, students[upd].name, students'[upd].name)
                   /\ MarkAfter(ch.cw1, students[upd].coursework[1],
                                students'[upd].coursework[1])
                   /\ MarkAfter(ch.exam, students[upd].exam, students'[upd].exam)]_vars

\* C17 witness: no file was there at any time, two Add submissions were accepted
\* one after the other, both saves failed and both records are in the collection
C17_Witness ==
    /\ last.op = "add" /\ last.outcome = "save_failed"
    /\ loadedFrom = 0 /\ env = 0 /\ NoCandidate
    /\ Len(students) = 2 /\ last.n = 1

C19_FlagsRegulateFlow ==
    [][/\ (last'.op = "Show Punchline" /\ last'.outcome = "revealed")
             => (joke.current_joke # 0 /\ joke.can_show_punchline)
       /\ (last'.op = "Next Joke" /\ last'.outcome = "shown")
             => joke.can_next]_vars

\* C20 as stated: the results are shown after exactly NUM_QUESTIONS questions,
\* and next_problem replaces the question on display only after that question
\* was answered correctly or wrongly for the second time, so current_q grows by
\* one per question answered.
C20_TenAnsweredQuestions ==
    [][last'.op = "next_problem" =>
          /\ last'.outcome = "results" => quiz.current_q = NUM_QUESTIONS
          /\ last'.outcome = "question" =>
                (quiz.done /\ quiz'.current_q = quiz.current_q + 1)]_vars

\* C21 as stated: in every state of a quiz session the points of a question
\* were awarded at most once, so 0 <= raw_score <= 10 * current_q <= 100, and
\* the score the results dialog reports out of 100 is at most 100.
C21_ScoreWithinBounds ==
    /\ quiz.screen = "quiz" =>
          /\ 0 <= quiz.raw_score
          /\ quiz.raw_score <= 10 * quiz.current_q
          /\ 10 * quiz.current_q <= 10 * NUM_QUESTIONS
    /\ (last.op = "next_problem" /\ last.outcome = "results") => last.score <= 100

\* the two collections hold the same records, each as often
SameRecords(a, b) ==
    /\ Len(a) = Len(b)
    /\ \A i \in 1..Len(a) :
          Cardinality({j \in 1..Len(a) : a[j] = a[i]})
              = Cardinality({j \in 1..Len(b) : b[j] = a[i]})

\* C22: a sort and the queries (view all, view individual, highest, lowest)
\* leave the files as they are; the queries leave the collection as it is and a
\* sort leaves the same records, each as often; the files change only by an
\* add, a delete or an update whose save succeeds, and that save writes the
\* records in the order the collection then has, the sorted one after a sort.
C22_SortAndQueriesWriteNothing ==
    [][/\ last'.op \in {"sort", "view_all", "view", "highest", "lowest"} =>
             /\ fs' = fs
             /\ IF last'.op = "sort" THEN SameRecords(students, students')
                ELSE students' = students
       /\ fs' # fs =>
             /\ last'.op \in {"add", "delete", "update"} /\ last'.outcome = "saved"
       /\ (last'.op \in {"add", "delete", "update"} /\ last'.outcome = "saved") =>
             /\ fs'[last'.path].text = SaveText(students')
             /\ last.op = "sort" =>
                   IF last'.op = "delete"
                   THEN students' = WithoutSid(students, students[last'.found].sid)
                   ELSE \A i \in 1..Len(students) :
                           i # last'.found => students'[i] = students[i]]_vars

\* C22 witness: the file was loaded with A1 before B2, a sort put B2 first, and
\* the save of an update of B2 wrote the file with B2 before A1
C22_Witness ==
    /\ last.op = "update" /\ last.outcome = "saved" /\ last.found = 1
    /\ loadedFrom = 1 /\ Len(students) = 3
    /\ students[1].name = nBan /\ students[1].exam = 100
    /\ students[2].name = nAnn /\ students[2].sid = sA1
    /\ fs[1].text = SaveText(students)

====
